---- MODULE Spec2Model ----
(***************************************************************************)
(* GradeFlow (gradeReport/main.go): the batch run that loads the grade and *)
(* teacher tables, indexes the teachers, matches and groups the grade      *)
(* rows, writes one CSV report per group and optionally mails the reports. *)
(*                                                                         *)
(* A Go string is modelled as the sequence of its characters, each         *)
(* character a one-character TLA+ string, so that formatting, trimming,    *)
(* parsing and byte-wise comparison are computed and not assumed.  The two *)
(* non-ASCII characters of the report file name are written "U+5E74" and   *)
(* "U+7D1A".                                                               *)
(***************************************************************************)
EXTENDS Integers, Sequences, FiniteSets, TLC

VARIABLES
  records,         \* data/grade.csv as csv.ReadAll returns it (header first)
  teacherRecords,  \* data/teacher.csv as csv.ReadAll returns it (header first)
  pc,              \* position of main()
  csvHeaders,      \* the package-level header cache
  grades,          \* []GradeRecord returned by readGradeCSV
  teachers,        \* []TeacherRecord returned by readTeacherCSV
  teacherMap,      \* map[string]TeacherRecord
  reportData,      \* map[ReportKey][]GradeRecord
  errorRecords,    \* grade rows without a teacher
  todo,            \* keys of reportData the range loop of generateCSVReports has not visited
  reportFiles,     \* map[ReportKey]string
  disk,            \* files under output/: path -> [header, rows]
  settings,        \* <<the decoded data/setting.json>>, or NoSettings
  teacherFiles,    \* map[string][]string built by groupReportsByTeacher
  mailTodo,        \* emails the range loop of main has not visited
  mails,           \* calls of sendEmail, in order
  run,             \* 1 for the first run of the program, 2 for a second run on the same inputs
  prevRun          \* <<what the first run left behind>>, or NoRun

vars == <<records, teacherRecords, pc, csvHeaders, grades, teachers, teacherMap,
          reportData, errorRecords, todo, reportFiles, disk, settings,
          teacherFiles, mailTodo, mails, run, prevRun>>

-----------------------------------------------------------------------------
(* Strings *)

Ascii ==
  <<" ", "!", "U+0022", "#", "$", "%", "&", "'", "(", ")", "*", "+", ",", "-", ".", "/",
    "0", "1", "2", "3", "4", "5", "6", "7", "8", "9", ":", ";", "<", "=", ">", "?",
    "@", "A", "B", "C", "D", "E", "F", "G", "H", "I", "J", "K", "L", "M", "N", "O",
    "P", "Q", "R", "S", "T", "U", "V", "W", "X", "Y", "Z", "[", "U+005C", "]", "^", "_",
    "U+0060", "a", "b", "c", "d", "e", "f", "g", "h", "i", "j", "k", "l", "m", "n", "o",
    "p", "q", "r", "s", "t", "u", "v", "w", "x", "y", "z", "{", "|", "}", "~">>

\* the byte of an ASCII character
Ord(c) == 31 + (CHOOSE i \in 1..Len(Ascii) : Ascii[i] = c)

Digits == {"0", "1", "2", "3", "4", "5", "6", "7", "8", "9"}

IsSpace(c) == c \in {" ", "U+0009", "U+000A", "U+000D"}

\* Go's < on strings: byte-wise lexicographic
RECURSIVE StrLess(_, _)
StrLess(s, t) ==
  IF t = <<>> THEN FALSE
  ELSE IF s = <<>> THEN TRUE
  ELSE IF s[1] = t[1] THEN StrLess(Tail(s), Tail(t))
  ELSE Ord(s[1]) < Ord(t[1])

RECURSIVE TrimLeft(_)
TrimLeft(s) ==
  IF s # <<>> /\ IsSpace(s[1]) THEN TrimLeft(Tail(s)) ELSE s

RECURSIVE TrimRight(_)
TrimRight(s) ==
  IF s # <<>> /\ IsSpace(s[Len(s)]) THEN TrimRight(SubSeq(s, 1, Len(s) - 1)) ELSE s

\* strings.TrimSpace
TrimSpace(s) == TrimRight(TrimLeft(s))

RECURSIVE DigitsValue(_)
DigitsValue(d) ==
  IF d = <<>> THEN 0
  ELSE 10 * DigitsValue(SubSeq(d, 1, Len(d) - 1)) + (Ord(d[Len(d)]) - Ord("0"))

\* strconv.Atoi: an optional sign, then one or more decimal digits.  (The
\* range error of strconv for values beyond 64 bits is out of reach of the
\* labels used here, which have at most four characters.)
Atoi(s) ==
  LET signed == s # <<>> /\ s[1] \in {"+", "-"}
      d      == IF signed THEN Tail(s) ELSE s
      ok     == d # <<>> /\ \A i \in 1..Len(d) : d[i] \in Digits
  IN  IF ~ok THEN [err |-> TRUE, val |-> 0]
      ELSE [err |-> FALSE,
            val |-> IF signed /\ s[1] = "-" THEN 0 - DigitsValue(d) ELSE DigitsValue(d)]

\* fmt.Sprintf("%s_%s_%s", a, b, c)
JoinKey(a, b, c) == a \o <<"_">> \o b \o <<"_">> \o c

-----------------------------------------------------------------------------
(* Record model *)

FieldSubjectCode == 0
FieldSubjectName == 1
FieldYear == 3
FieldClass == 4
FieldSeatNumber == 5
FieldStudentName == 6

\* (*GradeRecord).getField: the trimmed cell, or "" past the end of the row
getField(row, index) ==
  IF index < Len(row) THEN TrimSpace(row[index + 1]) ELSE <<>>

SubjectCode(row) == getField(row, FieldSubjectCode)
SubjectName(row) == getField(row, FieldSubjectName)
Year(row)        == getField(row, FieldYear)
Class(row)       == getField(row, FieldClass)
SeatNumber(row)  == getField(row, FieldSeatNumber)

\* the lookup key of a grade row and of a teacher record
GradeKey(row)  == JoinKey(SubjectCode(row), Year(row), Class(row))
TeacherKey(t)  == JoinKey(t.SubjectCode, t.Year, t.Class)

EmptyMap == <<>>

\* m[k] = v of a Go map
Put(m, k, v) == (k :> v) @@ m

Range(s) == {s[i] : i \in 1..Len(s)}

-----------------------------------------------------------------------------
(* readGradeCSV *)

\* the width test that admits a data row
AdmittedOffByOne(row) == Len(row) > FieldStudentName + 1
Admitted(row) == ~(Len(row) < FieldStudentName + 1)

\* a row shorter than the header is copied into a row of the header's width
PadRow(row, headers) ==
  IF Len(row) < Len(headers)
    THEN row \o [i \in 1..(Len(headers) - Len(row)) |-> <<>>]
    ELSE row

RECURSIVE GradeRowsFrom(_, _, _)
GradeRowsFrom(recs, i, headers) ==
  IF i > Len(recs) THEN <<>>
  ELSE IF Len(recs[i]) = 0 \/ ~Admitted(recs[i])
         THEN GradeRowsFrom(recs, i + 1, headers)
         ELSE <<PadRow(recs[i], headers)>> \o GradeRowsFrom(recs, i + 1, headers)

HeadersOf(recs) == IF Len(recs) > 0 THEN recs[1] ELSE <<>>

readGradeCSV(recs) == GradeRowsFrom(recs, 2, HeadersOf(recs))

-----------------------------------------------------------------------------
(* readTeacherCSV *)

\* csv.Reader with FieldsPerRecord = 0: every record must have the width of
\* the first one, otherwise ReadAll fails
UniformWidth(recs) == \A i \in 1..Len(recs) : Len(recs[i]) = Len(recs[1])

TeacherOf(rec) ==
  [SubjectCode |-> TrimSpace(rec[1]), SubjectName |-> TrimSpace(rec[2]),
   Year |-> TrimSpace(rec[3]), Class |-> TrimSpace(rec[4]),
   Group |-> TrimSpace(rec[5]), TeacherName |-> TrimSpace(rec[6]),
   Email |-> TrimSpace(rec[7])]

RECURSIVE TeachersFrom(_, _)
TeachersFrom(recs, i) ==
  IF i > Len(recs) THEN <<>>
  ELSE IF Len(recs[i]) < 7
         THEN TeachersFrom(recs, i + 1)
         ELSE <<TeacherOf(recs[i])>> \o TeachersFrom(recs, i + 1)

readTeacherCSV(recs) == TeachersFrom(recs, 2)

-----------------------------------------------------------------------------
(* buildTeacherMap, matchStudentsToTeachers *)

RECURSIVE buildTeacherMap(_)
buildTeacherMap(ts) ==
  IF ts = <<>> THEN EmptyMap
  ELSE Put(buildTeacherMap(SubSeq(ts, 1, Len(ts) - 1)),
           TeacherKey(ts[Len(ts)]), ts[Len(ts)])

ReportKeyOf(teacher, row) ==
  [TeacherName |-> teacher.TeacherName, Year |-> Year(row),
   SubjectCode |-> SubjectCode(row), SubjectName |-> SubjectName(row)]

\* one iteration of the loop of matchStudentsToTeachers
MatchOne(acc, row, tmap) ==
  IF GradeKey(row) \notin DOMAIN tmap
    THEN [acc EXCEPT !.errorRecords = Append(@, row)]
    ELSE LET key == ReportKeyOf(tmap[GradeKey(row)], row)
             old == IF key \in DOMAIN acc.reportData THEN acc.reportData[key] ELSE <<>>
         IN  [acc EXCEPT !.reportData = Put(@, key, Append(old, row))]

RECURSIVE matchStudentsToTeachers(_, _)
matchStudentsToTeachers(gs, tmap) ==
  IF gs = <<>> THEN [reportData |-> EmptyMap, errorRecords |-> <<>>]
  ELSE MatchOne(matchStudentsToTeachers(SubSeq(gs, 1, Len(gs) - 1), tmap),
                gs[Len(gs)], tmap)

-----------------------------------------------------------------------------
(* generateCSVReports, createCSVReport *)

\* filepath.Join("output", fmt.Sprintf("%s_<U+5E74><U+7D1A>%s_%s.csv", ...))
FileName(key) ==
  <<"o", "u", "t", "p", "u", "t", "/">> \o key.TeacherName
    \o <<"_", "U+5E74", "U+7D1A">> \o key.Year \o <<"_">> \o key.SubjectName
    \o <<".", "c", "s", "v">>

\* the less function handed to sort.Slice
SeatLessLexical(a, b) == StrLess(SeatNumber(a), SeatNumber(b))
SeatLess(a, b) ==
  LET seatI == Atoi(SeatNumber(a))
      seatJ == Atoi(SeatNumber(b))
  IN  IF ~seatI.err /\ ~seatJ.err THEN seatI.val < seatJ.val
      ELSE StrLess(SeatNumber(a), SeatNumber(b))

Less(a, b) ==
  IF Class(a) # Class(b) THEN StrLess(Class(a), Class(b)) ELSE SeatLess(a, b)

Swap(s, i, j) == [s EXCEPT ![i] = s[j], ![j] = s[i]]

\* sort.Slice on a slice of at most 12 elements is a plain insertion sort
\* (insertionSortLessFunc): element j sinks while it is less than its left
\* neighbour
RECURSIVE Sink(_, _)
Sink(s, j) ==
  IF j > 1 /\ Less(s[j], s[j - 1]) THEN Sink(Swap(s, j, j - 1), j - 1) ELSE s

RECURSIVE InsertionSort(_, _)
InsertionSort(s, i) ==
  IF i > Len(s) THEN s ELSE InsertionSort(Sink(s, i), i + 1)

SortSlice(s) == InsertionSort(s, 2)

-----------------------------------------------------------------------------
(* groupReportsByTeacher, getTeacherNameByEmail *)

\* the linear scan: the first teacher in list order with the row's key
ScanTeacher(ts, matchKey) ==
  LET hits == {i \in 1..Len(ts) : TeacherKey(ts[i]) = matchKey}
  IN  IF hits = {} THEN 0 ELSE CHOOSE i \in hits : \A j \in hits : i <= j

\* one iteration of the loop of groupReportsByTeacher
GroupOne(tf, key, rfiles, rdata, ts) ==
  IF Len(rdata[key]) > 0
    THEN LET i == ScanTeacher(ts, GradeKey(rdata[key][1]))
         IN  IF i = 0 THEN tf
             ELSE Put(tf, ts[i].Email,
                      Append(IF ts[i].Email \in DOMAIN tf THEN tf[ts[i].Email] ELSE <<>>,
                             rfiles[key]))
    ELSE tf

\* order: the order in which the range loop visits reportFiles
RECURSIVE groupReportsByTeacher(_, _, _, _)
groupReportsByTeacher(order, rfiles, rdata, ts) ==
  IF order = <<>> THEN EmptyMap
  ELSE GroupOne(groupReportsByTeacher(SubSeq(order, 1, Len(order) - 1), rfiles, rdata, ts),
                order[Len(order)], rfiles, rdata, ts)

getTeacherNameByEmail(ts, email) ==
  LET hits == {i \in 1..Len(ts) : ts[i].Email = email}
  IN  IF hits = {} THEN email
      ELSE ts[CHOOSE i \in hits : \A j \in hits : i <= j].TeacherName

\* the orders a range loop may visit the keys of a map in
Orders(S) ==
  {f \in [1..Cardinality(S) -> S] : \A i, j \in 1..Cardinality(S) : f[i] = f[j] => i = j}

-----------------------------------------------------------------------------
(* main *)

NoSettings == <<>>
NoRun == <<>>

\* output/error.csv
ErrorFile == <<"o", "u", "t", "p", "u", "t", "/", "e", "r", "r", "o", "r", ".", "c", "s", "v">>

\* a file that os.Create truncated and whose writer then failed
Truncated == [header |-> <<>>, rows |-> <<>>, complete |-> FALSE]

FileOf(header, rows) == [header |-> header, rows |-> rows, complete |-> TRUE]

sTrue == <<"t", "r", "u", "e">>

\* the send switch of main
ShouldSendUnlessFalse(s) == s.ShouldSendEmail # <<"f", "a", "l", "s", "e">>
ShouldSend(s) == s.ShouldSendEmail = sTrue

\* the setting.json files a run may find
SettingsPool ==
  {[SenderEmail |-> <<"s", "@">>, ShouldSendEmail |-> v, EmailTitle |-> <<"T">>] :
     v \in {sTrue, <<"f", "a", "l", "s", "e">>, <<"T", "R", "U", "E">>}}

\* the program starts on the two input files
InitOn(gradeInputs, teacherInputs) ==
  /\ records \in gradeInputs
  /\ teacherRecords \in teacherInputs
  /\ pc = "readGrade"
  /\ csvHeaders = <<>>
  /\ grades = <<>>
  /\ teachers = <<>>
  /\ teacherMap = EmptyMap
  /\ reportData = EmptyMap
  /\ errorRecords = <<>>
  /\ todo = {}
  /\ reportFiles = EmptyMap
  /\ disk = EmptyMap
  /\ settings = NoSettings
  /\ teacherFiles = EmptyMap
  /\ mailTodo = {}
  /\ mails = <<>>
  /\ run = 1
  /\ prevRun = NoRun

\* main, lines 91-94: data/grade.csv cannot be opened or parsed
ReadGradeFails ==
  /\ pc = "readGrade"
  /\ pc' = "fatalGrade"
  /\ UNCHANGED <<records, teacherRecords, csvHeaders, grades, teachers, teacherMap,
                 reportData, errorRecords, todo, reportFiles, disk, settings,
                 teacherFiles, mailTodo, mails, run, prevRun>>

ReadGrade ==
  /\ pc = "readGrade"
  /\ csvHeaders' = HeadersOf(records)
  /\ grades' = readGradeCSV(records)
  /\ pc' = "readTeacher"
  /\ UNCHANGED <<records, teacherRecords, teachers, teacherMap,
                 reportData, errorRecords, todo, reportFiles, disk, settings,
                 teacherFiles, mailTodo, mails, run, prevRun>>

\* main, lines 98-101: data/teacher.csv cannot be opened or parsed
ReadTeacherFails ==
  /\ pc = "readTeacher"
  /\ pc' = "fatalTeacher"
  /\ UNCHANGED <<records, teacherRecords, csvHeaders, grades, teachers, teacherMap,
                 reportData, errorRecords, todo, reportFiles, disk, settings,
                 teacherFiles, mailTodo, mails, run, prevRun>>

ReadTeacher ==
  /\ pc = "readTeacher"
  /\ UniformWidth(teacherRecords)
  /\ teachers' = readTeacherCSV(teacherRecords)
  /\ pc' = "match"
  /\ UNCHANGED <<records, teacherRecords, csvHeaders, grades, teacherMap,
                 reportData, errorRecords, todo, reportFiles, disk, settings,
                 teacherFiles, mailTodo, mails, run, prevRun>>

\* main, lines 105-111: index the teachers, match and group the grade rows
Match ==
  /\ pc = "match"
  /\ teacherMap' = buildTeacherMap(teachers)
  /\ LET m == matchStudentsToTeachers(grades, teacherMap')
     IN  /\ reportData' = m.reportData
         /\ errorRecords' = m.errorRecords
         /\ pc' = IF Len(m.errorRecords) > 0 THEN "errorCSV" ELSE "mkdir"
  /\ UNCHANGED <<records, teacherRecords, csvHeaders, grades, teachers,
                 todo, reportFiles, disk, settings,
                 teacherFiles, mailTodo, mails, run, prevRun>>

\* generateErrorCSV succeeds
GenerateErrorCSV ==
  /\ pc = "errorCSV"
  /\ disk' = Put(disk, ErrorFile, FileOf(csvHeaders, errorRecords))
  /\ pc' = "mkdir"
  /\ UNCHANGED <<records, teacherRecords, csvHeaders, grades, teachers, teacherMap,
                 reportData, errorRecords, todo, reportFiles, settings,
                 teacherFiles, mailTodo, mails, run, prevRun>>

\* generateErrorCSV fails: main logs the error and goes on.  Either the
\* directory or the file could not be created, or a write failed
GenerateErrorCSVFails ==
  /\ pc = "errorCSV"
  /\ \E created \in BOOLEAN :
       disk' = IF created THEN Put(disk, ErrorFile, Truncated) ELSE disk
  /\ pc' = "mkdir"
  /\ UNCHANGED <<records, teacherRecords, csvHeaders, grades, teachers, teacherMap,
                 reportData, errorRecords, todo, reportFiles, settings,
                 teacherFiles, mailTodo, mails, run, prevRun>>

\* generateCSVReports, lines 340-347: the output directory exists
BeginReports ==
  /\ pc = "mkdir"
  /\ todo' = DOMAIN reportData
  /\ reportFiles' = EmptyMap
  /\ pc' = "write"
  /\ UNCHANGED <<records, teacherRecords, csvHeaders, grades, teachers, teacherMap,
                 reportData, errorRecords, disk, settings,
                 teacherFiles, mailTodo, mails, run, prevRun>>

\* the exit main takes on an empty reportFiles
NoReportsIsFatalOnNoBuckets(rfiles, rdata) == DOMAIN rdata = {}
NoReportsIsFatal(rfiles, rdata) == DOMAIN rfiles = {}

\* generateCSVReports, lines 341-345: os.MkdirAll fails, nil is returned and
\* main finds no report file
MkdirFails ==
  /\ pc = "mkdir"
  /\ pc' = "fatalNoReports"
  /\ UNCHANGED <<records, teacherRecords, csvHeaders, grades, teachers, teacherMap,
                 reportData, errorRecords, todo, reportFiles, disk, settings,
                 teacherFiles, mailTodo, mails, run, prevRun>>

\* one iteration of the loop of generateCSVReports, createCSVReport succeeding:
\* the bucket is sorted in place and written
WriteReport(key) ==
  /\ pc = "write"
  /\ key \in todo
  /\ LET sorted == SortSlice(reportData[key])
     IN  /\ reportData' = Put(reportData, key, sorted)
         /\ disk' = Put(disk, FileName(key), FileOf(csvHeaders, sorted))
  /\ reportFiles' = Put(reportFiles, key, FileName(key))
  /\ todo' = todo \ {key}
  /\ UNCHANGED <<records, teacherRecords, pc, csvHeaders, grades, teachers, teacherMap,
                 errorRecords, settings, teacherFiles, mailTodo, mails, run, prevRun>>

\* one iteration with createCSVReport failing: at os.Create (nothing happens),
\* at the header (the file is truncated) or at a row (the bucket is sorted
\* already); the report is logged and skipped
WriteReportFails(key) ==
  /\ pc = "write"
  /\ key \in todo
  /\ \E stage \in {"create", "header", "row"} :
       /\ disk' = IF stage = "create" THEN disk ELSE Put(disk, FileName(key), Truncated)
       /\ reportData' = IF stage = "row"
                          THEN Put(reportData, key, SortSlice(reportData[key]))
                          ELSE reportData
  /\ todo' = todo \ {key}
  /\ UNCHANGED <<records, teacherRecords, pc, csvHeaders, grades, teachers, teacherMap,
                 errorRecords, reportFiles, settings, teacherFiles, mailTodo, mails,
                 run, prevRun>>

\* main, lines 120-125: the loop is over
EndReports ==
  /\ pc = "write"
  /\ todo = {}
  /\ pc' = IF NoReportsIsFatal(reportFiles, reportData) THEN "fatalNoReports" ELSE "settings"
  /\ UNCHANGED <<records, teacherRecords, csvHeaders, grades, teachers, teacherMap,
                 reportData, errorRecords, todo, reportFiles, disk, settings,
                 teacherFiles, mailTodo, mails, run, prevRun>>

\* main, lines 128-132: data/setting.json is missing or unreadable; main returns
ReadSettingsFails ==
  /\ pc = "settings"
  /\ pc' = "done"
  /\ UNCHANGED <<records, teacherRecords, csvHeaders, grades, teachers, teacherMap,
                 reportData, errorRecords, todo, reportFiles, disk, settings,
                 teacherFiles, mailTodo, mails, run, prevRun>>

\* main, lines 128-138 and 151-153: the settings are read; with the switch on,
\* the reports are grouped by teacher email
ReadSettings ==
  /\ pc = "settings"
  /\ \E s \in SettingsPool :
       /\ settings' = <<s>>
       /\ IF ShouldSend(s)
            THEN \E order \in Orders(DOMAIN reportFiles) :
                   /\ teacherFiles' = groupReportsByTeacher(order, reportFiles, reportData, teachers)
                   /\ mailTodo' = DOMAIN teacherFiles'
                   /\ pc' = "mail"
            ELSE /\ pc' = "done"
                 /\ UNCHANGED <<teacherFiles, mailTodo>>
  /\ UNCHANGED <<records, teacherRecords, csvHeaders, grades, teachers, teacherMap,
                 reportData, errorRecords, todo, reportFiles, disk, mails, run, prevRun>>

\* one iteration of the mail loop of main, lines 141-149.  sendEmail as it
\* stands only prints and returns nil; the transport it stands for
\* (smtp.SendMail, line 495) can fail, and the loop handles both results
SendEmail(email) ==
  /\ pc = "mail"
  /\ email \in mailTodo
  /\ \E ok \in BOOLEAN :
       mails' = Append(mails, [to |-> email,
                               name |-> getTeacherNameByEmail(teachers, email),
                               files |-> teacherFiles[email],
                               ok |-> ok])
  /\ mailTodo' = mailTodo \ {email}
  /\ UNCHANGED <<records, teacherRecords, pc, csvHeaders, grades, teachers, teacherMap,
                 reportData, errorRecords, todo, reportFiles, disk, settings,
                 teacherFiles, run, prevRun>>

\* main, line 150
EndMail ==
  /\ pc = "mail"
  /\ mailTodo = {}
  /\ pc' = "done"
  /\ UNCHANGED <<records, teacherRecords, csvHeaders, grades, teachers, teacherMap,
                 reportData, errorRecords, todo, reportFiles, disk, settings,
                 teacherFiles, mailTodo, mails, run, prevRun>>

\* the operator clears the output directory and starts the program again on
\* the same two input files
Rerun ==
  /\ pc = "done"
  /\ run = 1
  /\ prevRun' = <<[disk |-> disk, reportFiles |-> reportFiles, reportData |-> reportData]>>
  /\ run' = 2
  /\ pc' = "readGrade"
  /\ csvHeaders' = <<>>
  /\ grades' = <<>>
  /\ teachers' = <<>>
  /\ teacherMap' = EmptyMap
  /\ reportData' = EmptyMap
  /\ errorRecords' = <<>>
  /\ todo' = {}
  /\ reportFiles' = EmptyMap
  /\ disk' = EmptyMap
  /\ settings' = NoSettings
  /\ teacherFiles' = EmptyMap
  /\ mailTodo' = {}
  /\ mails' = <<>>
  /\ UNCHANGED <<records, teacherRecords>>

\* every key and every email the program can meet
AllKeys == DOMAIN reportData
AllEmails == DOMAIN teacherFiles

Next ==
  \/ ReadGradeFails
  \/ ReadGrade
  \/ ReadTeacherFails
  \/ ReadTeacher
  \/ Match
  \/ GenerateErrorCSV
  \/ GenerateErrorCSVFails
  \/ BeginReports
  \/ MkdirFails
  \/ \E key \in AllKeys : WriteReport(key)
  \/ \E key \in AllKeys : WriteReportFails(key)
  \/ EndReports
  \/ ReadSettingsFails
  \/ ReadSettings
  \/ \E email \in AllEmails : SendEmail(email)
  \/ EndMail

NextTwice == Next \/ Rerun

-----------------------------------------------------------------------------
(* Inputs *)

MaxRows == 3
MaxTeachers == 2

\* the sequences over S of length at most n
SeqsUpTo(S, n) == UNION {[1..k -> S] : k \in 0..n}

\* the files made of a header and at most n rows of the pool
FilesOver(header, pool, n) == {<<header>> \o rows : rows \in SeqsUpTo(pool, n)}

GradeHeader7 ==
  <<<<"c">>, <<"n">>, <<"i">>, <<"y">>, <<"k">>, <<"s">>, <<"p">>>>
GradeHeader8 == GradeHeader7 \o <<<<"g">>>>
TeacherHeader ==
  <<<<"c">>, <<"n">>, <<"y">>, <<"k">>, <<"g">>, <<"t">>, <<"e">>>>

\* a grade row through the student name, and a teacher row
GradeRow(code, name, year, class, seat) ==
  <<code, name, <<"S">>, year, class, seat, <<"p">>>>
TeacherRow(code, year, class, teacher, email) ==
  <<code, <<"n">>, year, class, <<>>, teacher, email>>

Lee == <<"L">>
Kim == <<"K">>
LeeMail == <<"l", "@">>
KimMail == <<"k", "@">>
Math == <<"M", "a">>

\* Spec: two subjects with a teacher each, and a subject without one
MainGradePool ==
  {GradeRow(<<"M">>, Math, <<"7">>, <<"1">>, <<"1">>),
   GradeRow(<<"E">>, <<"E", "n">>, <<"7">>, <<"2">>, <<"1">>),
   GradeRow(<<"X">>, <<"X">>, <<"7">>, <<"1">>, <<"2">>)}
MainTeacherPool ==
  {TeacherRow(<<"M">>, <<"7">>, <<"1">>, Lee, LeeMail),
   TeacherRow(<<"E">>, <<"7">>, <<"2">>, Kim, KimMail)}

Init ==
  InitOn(FilesOver(GradeHeader7, MainGradePool, MaxRows),
         FilesOver(TeacherHeader, MainTeacherPool, MaxTeachers))

Spec == Init /\ [][Next]_vars

\* SpecJoin: subject codes and years that hold the separator of the lookup key
JoinGradePool ==
  {GradeRow(<<"A", "_", "7">>, Math, <<"1">>, <<"1">>, <<"1">>),
   GradeRow(<<"A">>, Math, <<"7", "_", "1">>, <<"1">>, <<"1">>),
   GradeRow(<<"A">>, Math, <<"7">>, <<"1">>, <<"2">>)}
JoinTeacherPool ==
  {TeacherRow(<<"A", "_", "7">>, <<"1">>, <<"1">>, Lee, LeeMail),
   TeacherRow(<<"A">>, <<"7", "_", "1">>, <<"1">>, Kim, KimMail),
   TeacherRow(<<"A">>, <<"7">>, <<"1">>, Lee, LeeMail)}

MaxKeyRows == 2

InitJoin ==
  InitOn(FilesOver(GradeHeader7, JoinGradePool, MaxKeyRows),
         FilesOver(TeacherHeader, JoinTeacherPool, MaxTeachers))

SpecJoin == InitJoin /\ [][Next]_vars

\* SpecKeys: two teacher rows on one (subject, year, class), two classes of
\* one teacher, two subject codes under one subject name, and cells with
\* blanks around them
KeyGradePool ==
  {GradeRow(<<" ", "A">>, Math, <<"7", " ">>, <<"1">>, <<"2">>),
   GradeRow(<<"A">>, Math, <<"7">>, <<"2">>, <<"1">>),
   GradeRow(<<"B">>, Math, <<"7">>, <<"1">>, <<"1">>)}
KeyTeacherPool ==
  {TeacherRow(<<"A", " ">>, <<"7">>, <<"1">>, Lee, LeeMail),
   TeacherRow(<<"A">>, <<"7">>, <<"1">>, Kim, KimMail),
   TeacherRow(<<"A">>, <<"7">>, <<"2">>, Lee, LeeMail),
   TeacherRow(<<"B">>, <<"7">>, <<"1">>, Lee, LeeMail)}

InitKeys ==
  InitOn(FilesOver(GradeHeader7, KeyGradePool, MaxKeyRows),
         FilesOver(TeacherHeader, KeyTeacherPool, MaxTeachers))

SpecKeys == InitKeys /\ [][Next]_vars

\* SpecTwice: the same inputs, the program run a second time
SpecTwice == InitKeys /\ [][NextTwice]_vars

\* SpecSort: one teacher for three classes of one subject; seat labels that
\* are numeric, non-numeric, and padded with blanks
SortGradePool ==
  {GradeRow(<<"M">>, Math, <<"7">>, <<"1">>, <<"9">>),
   GradeRow(<<"M">>, Math, <<"7">>, <<"1">>, <<"1", "0">>),
   GradeRow(<<"M">>, Math, <<"7">>, <<"1">>, <<"1", "a">>),
   GradeRow(<<"M">>, Math, <<"7">>, <<"2">>, <<" ", "9">>),
   GradeRow(<<"M">>, Math, <<"7">>, <<"2">>, <<"1", "0">>),
   GradeRow(<<"M">>, Math, <<"7">>, <<"1", "0">>, <<"1">>),
   GradeRow(<<"X">>, Math, <<"7">>, <<"1">>, <<"1">>)}
SortTeacherFile ==
  <<TeacherHeader,
    TeacherRow(<<"M">>, <<"7">>, <<"1">>, Lee, LeeMail),
    TeacherRow(<<"M">>, <<"7">>, <<"2">>, Lee, LeeMail),
    TeacherRow(<<"M">>, <<"7">>, <<"1", "0">>, Lee, LeeMail)>>

InitSort ==
  InitOn(FilesOver(GradeHeader7, SortGradePool, MaxRows), {SortTeacherFile})

SpecSort == InitSort /\ [][Next]_vars

\* SpecRead: rows of 6, 7, 8 and 9 cells under headers of 7 and 8 cells
ReadGradePool ==
  {SubSeq(GradeRow(<<"M">>, Math, <<"7">>, <<"1">>, <<"1">>), 1, 6),
   GradeRow(<<"M">>, Math, <<"7">>, <<"1">>, <<"2">>),
   GradeRow(<<"M">>, Math, <<"7">>, <<"1">>, <<"3">>) \o <<<<"g">>>>,
   GradeRow(<<"M">>, Math, <<"7">>, <<"1">>, <<"4">>) \o <<<<"g">>, <<"x">>>>,
   GradeRow(<<"X">>, Math, <<"7">>, <<"1">>, <<"5">>)}
ReadTeacherFile ==
  <<TeacherHeader, TeacherRow(<<"M">>, <<"7">>, <<"1">>, Lee, LeeMail)>>

InitRead ==
  InitOn(FilesOver(GradeHeader7, ReadGradePool, MaxRows)
           \cup FilesOver(GradeHeader8, ReadGradePool, MaxRows),
         {ReadTeacherFile})

SpecRead == InitRead /\ [][Next]_vars

-----------------------------------------------------------------------------
(* Properties *)

\* how often x occurs in the sequence s
Count(x, s) == Cardinality({i \in 1..Len(s) : s[i] = x})

GradeTriple(row) == <<SubjectCode(row), Year(row), Class(row)>>
TeacherTriple(t) == <<t.SubjectCode, t.Year, t.Class>>

\* main is past matchStudentsToTeachers
AfterMatch == pc \notin {"readGrade", "readTeacher", "match", "fatalGrade", "fatalTeacher"}

\* main is past the loop of generateCSVReports
AfterReports == pc \in {"settings", "mail", "done"}

\* the teacher records the index holds
Indexed == {teacherMap[k] : k \in DOMAIN teacherMap}

\* row G lies in bucket key and nowhere else
OnlyInBucket(G, key) ==
  /\ key \in DOMAIN reportData
  /\ Count(G, reportData[key]) = Count(G, grades)
  /\ \A k \in DOMAIN reportData \ {key} : Count(G, reportData[k]) = 0
  /\ Count(G, errorRecords) = 0

\* row G lies in the unmatched list and in no bucket
OnlyUnmatched(G) ==
  /\ Count(G, errorRecords) = Count(G, grades)
  /\ \A k \in DOMAIN reportData : Count(G, reportData[k]) = 0

\* C1: after matching, a grade row whose (subjectCode, gradeLevel, class)
\* equals that of an indexed teacher lies in the one bucket keyed by that
\* teacher's name and the row's gradeLevel, subjectCode and subjectName, and
\* not in the unmatched list; a row whose triple no teacher row has lies in
\* the unmatched list and in no bucket.
C1_MatchByTriple ==
  AfterMatch =>
    \A n \in 1..Len(grades) :
      LET G == grades[n]
          same == {t \in Indexed : TeacherTriple(t) = GradeTriple(G)}
      IN  /\ same # {} => \E t \in same : OnlyInBucket(G, ReportKeyOf(t, G))
          /\ (\A i \in 1..Len(teachers) : TeacherTriple(teachers[i]) # GradeTriple(G))
               => OnlyUnmatched(G)

\* C2: after the index is built, the lookup of the triple of every teacher
\* row with at least 7 columns returns the last row of the list with that
\* same triple.
C2_LookupLastOfTriple ==
  AfterMatch =>
    \A i \in 2..Len(teacherRecords) :
      Len(teacherRecords[i]) >= 7 =>
        LET T == TeacherOf(teacherRecords[i])
            same == {j \in 2..Len(teacherRecords) :
                       /\ Len(teacherRecords[j]) >= 7
                       /\ TeacherTriple(TeacherOf(teacherRecords[j])) = TeacherTriple(T)}
            last == CHOOSE j \in same : \A k \in same : k <= j
        IN  /\ TeacherKey(T) \in DOMAIN teacherMap
            /\ TeacherTriple(teacherMap[TeacherKey(T)]) = TeacherTriple(T)
            /\ teacherMap[TeacherKey(T)] = TeacherOf(teacherRecords[last])

\* the emails under which the distribution plan lists a path
Holders(path) == {e \in DOMAIN teacherFiles : path \in Range(teacherFiles[e])}

\* C3: the distribution plan lists the path of every exported report under
\* exactly one email, the email of the teacher the index resolved for the
\* rows of the report's bucket.
C3_PlanUsesIndexedTeacher ==
  (pc \in {"mail", "done"} /\ settings # NoSettings /\ ShouldSend(settings[1])) =>
    \A key \in DOMAIN reportFiles :
      /\ Cardinality(Holders(reportFiles[key])) = 1
      /\ \A n \in 1..Len(reportData[key]) :
           Holders(reportFiles[key]) = {teacherMap[GradeKey(reportData[key][n])].Email}

\* the report files in a directory
ReportPaths(d) == DOMAIN d \ {ErrorFile}

\* C4: distinct ReportKeys get distinct file paths, and when every write has
\* succeeded the output directory holds as many reports as there are buckets.
C4_OneFilePerReportKey ==
  (AfterReports /\ DOMAIN reportFiles = DOMAIN reportData) =>
    /\ \A k1, k2 \in DOMAIN reportData : k1 # k2 => FileName(k1) # FileName(k2)
    /\ Cardinality(ReportPaths(disk)) = Cardinality(DOMAIN reportData)

Reports(d) == [path \in ReportPaths(d) |-> d[path]]

\* C5: a second run on the same inputs, the output directory cleared in
\* between and every report write succeeding in both runs, leaves the same
\* report files with the same content as the first run.
C5_SecondRunSameReports ==
  (/\ run = 2
   /\ AfterReports
   /\ DOMAIN reportFiles = DOMAIN reportData
   /\ DOMAIN prevRun[1].reportFiles = DOMAIN prevRun[1].reportData)
    => Reports(disk) = Reports(prevRun[1].disk)

\* the complete report files on disk
Written == {path \in ReportPaths(disk) : disk[path].complete}

\* C10: in every written report, no row is strictly less, under the
\* comparison handed to the sort, than a row of the same class before it.
C10_SeatOrderConsistent ==
  \A path \in Written :
    LET rows == disk[path].rows
    IN  \A i, j \in 1..Len(rows) :
          (i < j /\ Class(rows[i]) = Class(rows[j])) => ~Less(rows[j], rows[i])

\* the rows of grades, in order, that matching puts under key
BucketOf(key) ==
  SelectSeq(grades, LAMBDA g : /\ GradeKey(g) \in DOMAIN teacherMap
                              /\ ReportKeyOf(teacherMap[GradeKey(g)], g) = key)

\* s and t hold the same rows, each as often
SameRows(s, t) == \A r \in Range(s) \cup Range(t) : Count(r, s) = Count(r, t)

IsNumeric(seat) == ~Atoi(seat).err

\* C6: every written report carries the header, its rows are non-decreasing
\* by trimmed class string, within a class whose seat numbers all parse as
\* integers they are non-decreasing by the value of the seat number, and they
\* are exactly the rows of the bucket, none lost or duplicated.
C6_ReportsSorted ==
  \A path \in Written :
    LET rows == disk[path].rows
        inClass(c) == {i \in 1..Len(rows) : Class(rows[i]) = c}
    IN  /\ disk[path].header = csvHeaders
        /\ \A i, j \in 1..Len(rows) :
             i < j => ~StrLess(Class(rows[j]), Class(rows[i]))
        /\ \A c \in {Class(rows[i]) : i \in 1..Len(rows)} :
             (\A i \in inClass(c) : IsNumeric(SeatNumber(rows[i]))) =>
               \A i, j \in inClass(c) :
                 i < j => Atoi(SeatNumber(rows[i])).val <= Atoi(SeatNumber(rows[j])).val
        /\ \E key \in DOMAIN reportFiles :
             /\ reportFiles[key] = path
             /\ SameRows(rows, BucketOf(key))

\* a report of three rows and two classes that the sort had to reorder, with
\* seat 9 placed before seat 10 of the same class
C6_Witness ==
  \E key \in DOMAIN reportFiles :
    /\ reportFiles[key] \in Written
    /\ LET rows == disk[reportFiles[key]].rows
       IN  /\ Len(rows) = 3
           /\ rows # BucketOf(key)
           /\ Class(rows[1]) # Class(rows[3])
           /\ \E i \in 1..2 :
                /\ Class(rows[i]) = Class(rows[i + 1])
                /\ IsNumeric(SeatNumber(rows[i])) /\ IsNumeric(SeatNumber(rows[i + 1]))
                /\ Atoi(SeatNumber(rows[i])).val < Atoi(SeatNumber(rows[i + 1])).val
                /\ StrLess(SeatNumber(rows[i + 1]), SeatNumber(rows[i]))

\* main is past readGradeCSV
AfterRead == pc \notin {"readGrade", "fatalGrade"}

DataRows == SubSeq(records, 2, Len(records))

\* the data rows with at least 7 fields, in input order
WideEnough == SelectSeq(DataRows, LAMBDA r : Len(r) >= 7)

\* C7 as claimed: the admitted rows are the rows with at least 7 fields, and
\* every admitted row has the width of the header.
C7_AllRowsHeaderWidth ==
  AfterRead =>
    /\ Len(grades) = Len(WideEnough)
    /\ \A i \in 1..Len(grades) : Len(grades[i]) = Len(csvHeaders)

\* C7 as amended: the admitted rows are the rows with at least 7 fields, in
\* input order; a row shorter than the header is right-padded with empty
\* cells to the header's width, its cells kept in order; a row at least as
\* wide as the header is kept as it is.
C7_PaddedUpToHeader ==
  AfterRead =>
    /\ Len(grades) = Len(WideEnough)
    /\ \A i \in 1..Len(grades) :
         LET r == WideEnough[i]
             g == grades[i]
         IN  /\ Len(g) = IF Len(r) < Len(csvHeaders) THEN Len(csvHeaders) ELSE Len(r)
             /\ SubSeq(g, 1, Len(r)) = r
             /\ \A k \in (Len(r) + 1)..Len(g) : g[k] = <<>>

\* a batch with a dropped row, a padded row and a row wider than the header
C7_Witness ==
  /\ AfterRead
  /\ Len(WideEnough) < Len(DataRows)
  /\ \E i, j \in 1..Len(grades) :
       /\ Len(WideEnough[i]) < Len(csvHeaders) /\ Len(grades[i]) = Len(csvHeaders)
       /\ Len(grades[j]) > Len(csvHeaders)

\* C8 as claimed: the run ends with the fatal 'no reports' outcome exactly
\* when matching produced no bucket.
C8_FatalIffNoBuckets ==
  /\ pc = "fatalNoReports" => DOMAIN reportData = {}
  /\ AfterReports => DOMAIN reportData # {}

\* C8 as amended: the run ends with the fatal 'no reports' outcome exactly
\* when no report was written (no bucket, no output directory, or every write
\* failed); a failed write skips that report and the loop still visits every
\* other bucket before main goes on; the unmatched export is attempted exactly
\* when a row is unmatched, its outcome never ends the run, and when it
\* succeeds it holds the header and the unmatched rows.
C8_FatalIffNoReportWritten ==
  /\ [](/\ pc = "fatalNoReports" => DOMAIN reportFiles = {}
        /\ AfterReports => (DOMAIN reportFiles # {} /\ todo = {})
        /\ (AfterMatch /\ pc # "errorCSV" /\ ErrorFile \in DOMAIN disk
              /\ disk[ErrorFile].complete)
             => (errorRecords # <<>> /\ disk[ErrorFile] = FileOf(csvHeaders, errorRecords)))
  /\ [][(pc = "match" /\ pc' # "match") => (pc' = "errorCSV" <=> Len(errorRecords') > 0)]_vars
  /\ [][pc = "errorCSV" => pc' = "mkdir"]_vars
  /\ [][(pc = "write" /\ pc' = "write") =>
          \E key \in todo :
            /\ todo' = todo \ {key}
            /\ reportFiles' \in {reportFiles, Put(reportFiles, key, FileName(key))}]_vars
  /\ [][(pc = "write" /\ pc' # "write") => todo = {}]_vars

\* a run with an unmatched row in which one report failed, another was
\* written, and main went on to the settings
C8_Witness ==
  /\ pc = "settings"
  /\ DOMAIN reportFiles # {}
  /\ DOMAIN reportFiles # DOMAIN reportData
  /\ errorRecords # <<>>

Rank(p) ==
  CASE p = "readGrade" -> 1
    [] p = "readTeacher" -> 2
    [] p = "match" -> 3
    [] p = "errorCSV" -> 4
    [] p = "mkdir" -> 5
    [] p = "write" -> 6
    [] p = "settings" -> 7
    [] p = "mail" -> 8
    [] OTHER -> 9

MailsTo(e) == {i \in 1..Len(mails) : mails[i].to = e}

\* C9: the phases run in the order load, index and match, write, distribute,
\* none starting before the one before it is over; a mail is sent only after
\* every bucket has been visited by the writer and only when the settings
\* were read with the switch "true"; without settings the run ends normally,
\* sends nothing and leaves the output directory as it is; every email of the
\* plan gets exactly one mail with all its attachments, whether or not an
\* earlier mail failed.
C9_PhasesInOrder ==
  /\ [](/\ pc \in {"readGrade", "readTeacher", "match"} =>
             (teacherMap = EmptyMap /\ reportData = EmptyMap /\ disk = EmptyMap)
        /\ pc = "readGrade" => (grades = <<>> /\ teachers = <<>>)
        /\ Rank(pc) <= 6 =>
             (mails = <<>> /\ teacherFiles = EmptyMap /\ settings = NoSettings)
        /\ mails # <<>> =>
             (todo = {} /\ settings # NoSettings /\ settings[1].ShouldSendEmail = sTrue)
        /\ \A i \in 1..Len(mails) :
             /\ mails[i].to \in DOMAIN teacherFiles
             /\ mails[i].files = teacherFiles[mails[i].to]
             /\ MailsTo(mails[i].to) = {i}
        /\ pc = "done" => \A e \in DOMAIN teacherFiles : Cardinality(MailsTo(e)) = 1
        /\ (pc = "done" /\ settings = NoSettings) => mails = <<>>)
  /\ [][Rank(pc') >= Rank(pc)]_vars
  /\ [][(pc = "settings" /\ pc' # "settings" /\ settings' = NoSettings)
          => (pc' = "done" /\ mails' = <<>>)]_vars
  /\ [][(pc \in {"settings", "mail"}) => (disk' = disk /\ reportFiles' = reportFiles)]_vars

\* a finished run with two reports on disk whose first mail failed and whose
\* second mail was sent all the same
C9_Witness ==
  /\ pc = "done"
  /\ Cardinality(Written) = 2
  /\ Len(mails) = 2
  /\ ~mails[1].ok
  /\ mails[2].ok

====
